---- MODULE Spec2Model ----
(***************************************************************************)
(* Redmine / e-mail connector (src/connect.py, src/run.py).                *)
(*                                                                         *)
(* Texts are modelled structurally: a text is a sequence of lines, a line  *)
(* a sequence of tokens, so that split('\n'), startswith, replace, strip   *)
(* and re.search do real work.  A subject is a sequence of subject tokens, *)
(* either a word or a correlation tag "[Redmine #n]".                      *)
(* Time is the integer clock int(time.time()), in seconds.                 *)
(***************************************************************************)
EXTENDS Integers, Sequences, FiniteSets, TLC

\* ------------------------------------------------------------------ bounds
\* the backend of the HTTP specification
HttpMaxIssues == 1
HttpMaxJournals == 1
\* the backend and the clock of the scheduler specifications
MaxIssues == 2
MaxJournals == 1
MaxTicks == 3
MaxInbox == 2
\* the clock of the mailbox specification, in polling periods
MailMaxTicks == 2
\* the backend and the clock of the conversation specification
ThreadMaxIssues == 2
ThreadMaxJournals == 2
ThreadMaxTicks == 1
\* the backend of the notification specification
NotifyMaxIssues == 1

\* ---------------------------------------------------------- configuration
\* config['email']['check_interval'], in minutes
EMAIL_CHECK_INTERVAL == 1
\* the polling window of process_redmine_updates and the period of both jobs
Window == EMAIL_CHECK_INTERVAL * 60

\* --------------------------------------------------------------- subjects
W(s) == [k |-> "w", n |-> 0, s |-> s]
Tag(n) == [k |-> "tag", n |-> n, s |-> ""]
NoTag == -1

RECURSIVE re_search_last_tag(_)
\* the search that returns the last tag of the subject
re_search_last_tag(subject) ==
  IF subject = <<>> THEN NoTag
  ELSE IF subject[Len(subject)].k = "tag" THEN subject[Len(subject)].n
  ELSE re_search_last_tag(SubSeq(subject, 1, Len(subject) - 1))

RECURSIVE re_search_tag(_)
\* re.search(r'\[Redmine #(\d+)\]', subject): the first tag of the subject, or NoTag
re_search_tag(subject) ==
  IF subject = <<>> THEN NoTag
  ELSE IF Head(subject).k = "tag" THEN Head(subject).n
  ELSE re_search_tag(Tail(subject))

\* f"[Redmine #{issue.id}] Votre demande a été enregistrée"
confirmation_subject(id) == <<Tag(id), W("Votre demande a ete enregistree")>>

\* f"[Redmine #{issue.id}] Mise à jour: {issue.subject}"
update_subject(id, subject) == <<Tag(id), W("Mise a jour:")>> \o subject

\* ------------------------------------------------------------------ texts
EmptyText == << <<>> >>
\* a Python string is falsy iff it is empty
Truthy(text) == text # EmptyText

\* the tokens of an address: the empty string contributes none
Addr(a) == IF a = "" THEN <<>> ELSE <<a>>

\* a \n\n b : the last line of a ends, an empty line, then the lines of b
\* (the first line of the result continues the last line of a, the third
\* starts with the first line of b)
JoinBlank(line, text) == <<line, <<>>>> \o text

\* the description with a single line break after the header
TicketDescriptionOneBreak(from_email, body) ==
  <<<<"De:", " ">> \o Addr(from_email)>> \o body

\* f"De: {from_email}\n\n{body}"
TicketDescription(from_email, body) ==
  JoinBlank(<<"De:", " ">> \o Addr(from_email), body)

\* the comment without the name of its sender
CommentTextAnonymous(from_email, body) ==
  JoinBlank(<<"Commentaire par e-mail", ":">>, body)

\* f"Commentaire par e-mail de {from_email}:\n\n{body}"
CommentText(from_email, body) ==
  JoinBlank(<<"Commentaire par e-mail de", " ">> \o Addr(from_email) \o <<":">>, body)

RECURSIVE lstrip(_)
lstrip(line) ==
  IF line # <<>> /\ Head(line) = " " THEN lstrip(Tail(line)) ELSE line

RECURSIVE rstrip(_)
rstrip(line) ==
  IF line # <<>> /\ line[Len(line)] = " "
  THEN rstrip(SubSeq(line, 1, Len(line) - 1)) ELSE line

strip(line) == rstrip(lstrip(line))

RECURSIVE replace_De(_)
\* line.replace("De:", ""): every occurrence is removed
replace_De(line) ==
  IF line = <<>> THEN <<>>
  ELSE IF Head(line) = "De:" THEN replace_De(Tail(line))
  ELSE <<Head(line)>> \o replace_De(Tail(line))

startswith_De(line) == line # <<>> /\ Head(line) = "De:"

RECURSIVE requester_of_unstripped(_)
\* the loop without .strip()
requester_of_unstripped(description) ==
  IF description = <<>> THEN <<>>
  ELSE IF startswith_De(Head(description))
       THEN replace_De(Head(description))
  ELSE requester_of_unstripped(Tail(description))

RECURSIVE requester_of(_)
\* the loop over description.split('\n'): the first line starting with "De:"
\* decides (break); <<>> stands for None as well as for the empty string,
\* both are falsy in "if not requester_email"
requester_of(description) ==
  IF description = <<>> THEN <<>>
  ELSE IF startswith_De(Head(description))
       THEN strip(replace_De(Head(description)))
  ELSE requester_of(Tail(description))

\* ------------------------------------------------------- module globals
\* send_email and check_emails read the global EMAIL_SERVER; the module binds
\* EMAIL_IMAP_SERVER and EMAIL_SMTP_SERVER only, so the lookup raises
\* NameError, which both functions catch in their "except Exception"
\* the module with the name bound, as if line 51 or 52 read EMAIL_SERVER = ...
EMAIL_SERVER_bound == TRUE

EMAIL_SERVER_defined == FALSE

\* ---------------------------------------------------------------- values
Froms == {"a@x", "b@x", ""}
Bodies == { << <<"it's broken">> >> }
\* the ticket ids that subjects and payloads name
TagIds == {1, 2}
Subjects == {<<W("Need help")>>} \cup {<<W("Re:"), Tag(n), W("thanks")>> : n \in TagIds}
\* what the environment makes a backend call do: nothing, or make the read
\* (redmine.issue.get / filter) or the write (create / update) raise
Faults == {"none", "get", "write"}
ClockSteps == {1, Window}
StaffNotes == {EmptyText, << <<"fixed">> >>}
StaffDescriptions == {<< <<"created in the tracker">> >>}

VARIABLES
  entry,          \* how the service was started: "connect" or "run"
  now,            \* int(time.time())
  ticks,          \* number of clock advances so far
  issues,         \* the backend: ticket id i is issues[i]
  inbox,          \* the mailbox: messages in arrival order, with their \Seen flag
  http,           \* the last HTTP exchange: request, collaborator calls, status
  pc,             \* the scheduler thread: "off", "idle" or "scan"
  next_run,       \* schedule's next_run of the two jobs
  updated_since,  \* process_redmine_updates' local of the current run
  scanList,       \* tickets of the current scan not yet examined
  scanReturned,   \* what redmine.issue.filter returned to the current scan
  scanned,        \* tickets examined by the current scan
  scanMails,      \* send_email calls of the current scan, in order
  missed,         \* entries in the window of a failed scan, not notified since
  mbox            \* the last check_emails run: its collaborator calls

vars == <<entry, now, ticks, issues, inbox, http, pc, next_run, updated_since,
          scanList, scanReturned, scanned, scanMails, missed, mbox>>

\* ------------------------------------------------------- the mail sender
\* send_email: the message is built, then smtplib.SMTP(EMAIL_SERVER, ...)
\* is evaluated; the result is True only if the SMTP hand-over happened
send_email(to_email, subject) ==
  [op |-> "send", to |-> to_email, subject |-> subject, ok |-> EMAIL_SERVER_defined]

\* -------------------------------------------------- the backend wrappers
Exists(iss, id) == id \in 1..Len(iss)

NewIssue(subject, description, t) ==
  [subject |-> subject, description |-> description, journals |-> <<>>, updated_on |-> t]

\* returns the issue id, 0 for None
create_redmine_issue(iss, subject, description, t, fault) ==
  IF fault = "write"
  THEN [issues |-> iss, issue |-> 0]
  ELSE [issues |-> Append(iss, NewIssue(subject, description, t)), issue |-> Len(iss) + 1]

AddJournal(iss, id, notes, t) ==
  [iss EXCEPT ![id].journals = Append(@, [created_on |-> t, notes |-> notes]),
              ![id].updated_on = t]

update_redmine_issue(iss, id, notes, t, fault) ==
  IF fault = "get" \/ ~Exists(iss, id)
  THEN [issues |-> iss, ok |-> FALSE]
  ELSE IF fault = "write"
  THEN [issues |-> iss, ok |-> FALSE]
  ELSE [issues |-> AddJournal(iss, id, notes, t), ok |-> TRUE]

add_comment_to_redmine_issue(iss, id, comment, t, fault) ==
  update_redmine_issue(iss, id, comment, t, fault)

\* get_redmine_issue without its "except Exception"
get_redmine_issue_uncaught(iss, id, fault) ==
  IF fault = "get" THEN [raised |-> TRUE, found |-> FALSE]
  ELSE [raised |-> FALSE, found |-> Exists(iss, id)]

\* found = FALSE is None; raised is an exception leaving the function
get_redmine_issue(iss, id, fault) ==
  IF fault = "get" \/ ~Exists(iss, id)
  THEN [raised |-> FALSE, found |-> FALSE]
  ELSE [raised |-> FALSE, found |-> TRUE]

\* ------------------------------------------------------- /webhook/email
EmailKeys == {"from", "subject", "body"}

\* request.json: None (json = FALSE) or an object
EmailData(from_email, subject, body) ==
  [json |-> TRUE, obj |-> [k \in EmailKeys |->
      IF k = "from" THEN <<from_email>> ELSE IF k = "subject" THEN subject ELSE body]]

Restrict(data, keys) == [json |-> TRUE, obj |-> [k \in keys |-> data.obj[k]]]

WellFormedEmails ==
  {EmailData(f, s, b) : f \in Froms, s \in Subjects, b \in Bodies}

MalformedEmails ==
  {[json |-> FALSE, obj |-> <<>>]}
  \cup {Restrict(EmailData("a@x", <<W("Need help")>>, << <<"it's broken">> >>), K) :
          K \in (SUBSET EmailKeys) \ {EmailKeys}}

\* the test without its last disjunct
email_data_invalid_no_body(data) ==
  \/ ~data.json
  \/ DOMAIN data.obj = {}
  \/ "from" \notin DOMAIN data.obj
  \/ "subject" \notin DOMAIN data.obj

\* not data or 'from' not in data or 'subject' not in data or 'body' not in data
email_data_invalid(data) ==
  \/ ~data.json
  \/ DOMAIN data.obj = {}
  \/ "from" \notin DOMAIN data.obj
  \/ "subject" \notin DOMAIN data.obj
  \/ "body" \notin DOMAIN data.obj

EmailWebhookResult(data, iss, t, fault) ==
  IF email_data_invalid(data)
  THEN [issues |-> iss, calls |-> <<>>, status |-> 400]
  ELSE IF ~(EmailKeys \subseteq DOMAIN data.obj)
  THEN [issues |-> iss, calls |-> <<>>, status |-> 500]   \* KeyError, caught at line 344
  ELSE
    LET from_email == data.obj["from"][1]
        subject == data.obj["subject"]
        body == data.obj["body"]
        ticket_id == re_search_tag(subject)
    IN IF ticket_id # NoTag
       THEN LET text == CommentText(from_email, body)
                r == add_comment_to_redmine_issue(iss, ticket_id, text, t, fault)
            IN [issues |-> r.issues,
                calls |-> <<[op |-> "addComment", id |-> ticket_id, text |-> text, ok |-> r.ok]>>,
                status |-> 200]
       ELSE LET description == TicketDescription(from_email, body)
                r == create_redmine_issue(iss, subject, description, t, fault)
            IN [issues |-> r.issues,
                calls |-> <<[op |-> "createTicket", subject |-> subject,
                             description |-> description, issue |-> r.issue]>>
                          \o (IF r.issue # 0
                              THEN <<send_email(Addr(from_email), confirmation_subject(r.issue))>>
                              ELSE <<>>),
                status |-> 200]

\* ----------------------------------------------------- /webhook/redmine
\* request.json: None, or an object with top-level keys `keys`; when it has
\* "issue", that object's keys are `issue_keys` and its "id" is `id`
RedmineData(keys, issue_keys, id) ==
  [json |-> TRUE, keys |-> keys, issue_keys |-> issue_keys, id |-> id]

RedminePayloads ==
  {[json |-> FALSE, keys |-> {}, issue_keys |-> {}, id |-> 0],
   RedmineData({}, {}, 0),
   RedmineData({"project"}, {}, 0),
   RedmineData({"issue"}, {}, 0),
   RedmineData({"issue"}, {"subject"}, 0)}
  \cup {RedmineData({"issue"}, {"id"}, n) : n \in TagIds}

\* the notification with one message per journal entry of the ticket
RedmineNotificationPerJournal(iss, issue_id) ==
  [k \in 1..Len(iss[issue_id].journals) |->
      send_email(requester_of(iss[issue_id].description),
                 update_subject(issue_id, iss[issue_id].subject))]

\* lines 283-296: what the handler sends for a ticket with a requester
RedmineNotification(iss, issue_id) ==
  <<send_email(requester_of(iss[issue_id].description),
               update_subject(issue_id, iss[issue_id].subject))>>

\* the getTicket record keeps, of the detail returned, the number of its
\* journal entries
RedmineWebhookResult(data, iss, fault) ==
  IF ~data.json \/ data.keys = {}
  THEN [calls |-> <<>>, status |-> 400]
  ELSE IF "issue" \in data.keys
  THEN IF "id" \notin data.issue_keys
       THEN [calls |-> <<>>, status |-> 500]      \* KeyError, caught at line 299
       ELSE LET issue_id == data.id
                g == get_redmine_issue(iss, issue_id, fault)
                get == [op |-> "getTicket", id |-> issue_id, found |-> g.found,
                        n |-> IF g.found THEN Len(iss[issue_id].journals) ELSE 0]
            IN IF g.raised
               THEN [calls |-> <<get>>, status |-> 500]
               ELSE IF g.found /\ requester_of(iss[issue_id].description) # <<>>
               THEN [calls |-> <<get>> \o RedmineNotification(iss, issue_id),
                     status |-> 200]
               ELSE [calls |-> <<get>>, status |-> 200]
  ELSE [calls |-> <<>>, status |-> 200]

\* ------------------------------------------------ process_redmine_updates
RECURSIVE SortedIds(_, _)
\* redmine.issue.filter(..., sort="updated_on:desc", limit=100): the ids of the
\* set `ids`, most recently updated first (the higher id first among equals)
SortedIds(iss, ids) ==
  IF ids = {} THEN <<>>
  ELSE LET top == CHOOSE i \in ids : \A j \in ids :
                     \/ iss[i].updated_on > iss[j].updated_on
                     \/ iss[i].updated_on = iss[j].updated_on /\ i >= j
       IN <<top>> \o SortedIds(iss, ids \ {top})

\* journal.created_on >= updated_since
is_recent(journal, since) == journal.created_on >= since

RECURSIVE JournalMails(_, _, _, _, _)
\* the loop over issue_detail.journals, from entry k on
JournalMails(id, issue, requester_email, since, k) ==
  IF k > Len(issue.journals) THEN <<>>
  ELSE (IF is_recent(issue.journals[k], since) /\ Truthy(issue.journals[k].notes)
        THEN <<[mail |-> send_email(requester_email, update_subject(id, issue.subject)),
                id |-> id, idx |-> k]>>
        ELSE <<>>)
       \o JournalMails(id, issue, requester_email, since, k + 1)

\* the body of "for issue in issues" once the detail is there
TicketMails(id, issue, since) ==
  LET requester_email == requester_of(issue.description)
  IN IF requester_email = <<>> THEN <<>>
     ELSE JournalMails(id, issue, requester_email, since, 1)

\* the entries a scan with watermark `since` owes a notification: non-empty
\* notes, created strictly after the watermark, on a ticket with a requester
Owed(iss, since) ==
  {e \in {<<i, k>> : i \in 1..Len(iss), k \in 1..MaxJournals + 1} :
     /\ e[2] <= Len(iss[e[1]].journals)
     /\ requester_of(iss[e[1]].description) # <<>>
     /\ Truthy(iss[e[1]].journals[e[2]].notes)
     /\ iss[e[1]].journals[e[2]].created_on > since}

MailEntries(mails) == {<<mails[i].id, mails[i].idx>> : i \in 1..Len(mails)}

\* ------------------------------------------------------------ check_emails
\* what makes the handling of one message fail: its fetch answering a status
\* other than OK (line 162), or its payload not being decodable (lines 181, 184)
Defects == {"none", "fetch", "decode"}

InboxMessages ==
  {[from |-> "a@x", subject |-> s, body |-> b, defect |-> "none", seen |-> FALSE] :
     s \in {<<W("Need help")>>, <<W("Re:"), Tag(1), W("thanks")>>}, b \in Bodies}
  \cup {[from |-> "b@x", subject |-> <<W("Need help")>>, body |-> b, defect |-> d,
          seen |-> FALSE] : b \in Bodies, d \in Defects \ {"none"}}

\* what the environment makes the calls of one check_emails run do: nothing,
\* make redmine.issue.create raise, or make mail.store raise
MailFaults == {"none", "write", "store"}

RECURSIVE CheckEmailsLoop(_, _, _, _, _)
\* lines 160-206, from message k on: every unread message that can be read
\* becomes a ticket (the subject is not searched for a tag), is flagged \Seen
\* and confirmed.  An exception raised in the loop (decode, mail.store) leaves
\* it for the except of line 210; what was done before stays done.
\* `created` lists the messages a ticket was created from.
CheckEmailsLoop(box, iss, t, fault, k) ==
  LET stop == [inbox |-> box, issues |-> iss, calls |-> <<>>, created |-> <<>>]
  IN
  IF k > Len(box) THEN stop
  ELSE IF box[k].seen \/ box[k].defect = "fetch"
  THEN CheckEmailsLoop(box, iss, t, fault, k + 1)
  ELSE IF box[k].defect = "decode" THEN stop
  ELSE LET description == TicketDescription(box[k].from, box[k].body)
           r == create_redmine_issue(iss, box[k].subject, description, t, fault)
           create == [op |-> "createTicket", subject |-> box[k].subject,
                      description |-> description, issue |-> r.issue]
       IN IF r.issue = 0
          THEN LET rest == CheckEmailsLoop(box, iss, t, fault, k + 1)
               IN [rest EXCEPT !.calls = <<create>> \o @]
          ELSE IF fault = "store"
          THEN [inbox |-> box, issues |-> r.issues, calls |-> <<create>>,
                created |-> <<k>>]
          ELSE LET rest == CheckEmailsLoop([box EXCEPT ![k].seen = TRUE],
                                           r.issues, t, fault, k + 1)
               IN [rest EXCEPT
                     !.calls = <<create,
                                 send_email(Addr(box[k].from),
                                            confirmation_subject(r.issue))>> \o @,
                     !.created = <<k>> \o @]

\* imaplib.IMAP4_SSL(EMAIL_SERVER) is the first statement of the try block
CheckEmails(box, iss, t, fault) ==
  IF EMAIL_SERVER_defined
  THEN CheckEmailsLoop(box, iss, t, fault, 1)
  ELSE [inbox |-> box, issues |-> iss, calls |-> <<>>, created |-> <<>>]

\* ------------------------------------------------------------------ Init
NoExchange == [handler |-> "none", calls |-> <<>>, status |-> 0]

\* connect.py run as a script starts run_schedule in a thread before app.run;
\* run.py imports app and serves it, and starts no thread.  schedule's
\* every(n).minutes.do(job) sets next_run one period after registration.
\* The backend holds one of `backends` when the service starts.
Start(entries, backends) ==
  /\ entry \in entries
  /\ now = 0
  /\ ticks = 0
  /\ issues \in backends
  /\ inbox = <<>>
  /\ http = NoExchange
  /\ pc = (IF entry = "connect" THEN "idle" ELSE "off")
  /\ next_run = [emails |-> Window, updates |-> Window]
  /\ updated_since = 0
  /\ scanList = <<>>
  /\ scanReturned = <<>>
  /\ scanned = <<>>
  /\ scanMails = <<>>
  /\ missed = {}
  /\ mbox = [ran |-> FALSE, calls |-> <<>>, runs |-> 0, fault |-> "none",
             unread |-> {}, created |-> <<>>]

\* tickets as the tracker holds them when the service starts: requested by
\* e-mail through the connector (created as email_webhook creates them), or
\* opened in the tracker itself
Requested(from_email) ==
  NewIssue(<<W("Need help")>>, TicketDescription(from_email, << <<"it's broken">> >>), 0)

Internal == NewIssue(<<W("internal")>>, << <<"created in the tracker">> >>, 0)

\* a ticket of requester from_email whose subject quotes the tag of ticket n
Quoting(from_email, n) ==
  NewIssue(<<W("Fwd:"), Tag(n), W("thanks")>>,
           TicketDescription(from_email, << <<"it's broken">> >>), 0)

Backends ==
  {<<Requested("a@x"), Requested("b@x")>>,
   <<Internal, Requested("a@x")>>,
   <<Requested("a@x"), Requested("")>>}

Init == Start({"connect", "run"}, {<<>>} \cup Backends)

\* the service served through run.py, the tracker empty
InitRun == Start({"run"}, {<<>>})

\* the service started the way connect.py's __main__ starts it, the tracker
\* holding tickets already
InitConnect == Start({"connect"}, Backends)

RECURSIVE TotalJournals(_)
TotalJournals(iss) ==
  IF iss = <<>> THEN 0 ELSE Len(Head(iss).journals) + TotalJournals(Tail(iss))

\* the next state stays within mi tickets and mj journal entries
Bounded(mi, mj) == Len(issues') <= mi /\ TotalJournals(issues') <= mj

schedVars == <<pc, next_run, updated_since, scanList, scanReturned, scanned,
               scanMails, missed, mbox>>

\* ------------------------------------------------------------ environment
Tick(d) ==
  /\ now' = now + d
  /\ ticks' = ticks + 1
  /\ UNCHANGED <<entry, issues, inbox, http, schedVars>>

\* somebody comments on a ticket in the tracker
StaffComment(id, notes) ==
  /\ Exists(issues, id)
  /\ issues' = AddJournal(issues, id, notes, now)
  /\ UNCHANGED <<entry, now, ticks, inbox, http, schedVars>>

\* somebody opens a ticket in the tracker
StaffCreate(description) ==
  /\ issues' = Append(issues, NewIssue(<<W("internal")>>, description, now))
  /\ UNCHANGED <<entry, now, ticks, inbox, http, schedVars>>

MailArrives(m) ==
  /\ Len(inbox) < MaxInbox
  /\ inbox' = Append(inbox, m)
  /\ UNCHANGED <<entry, now, ticks, issues, http, schedVars>>

\* --------------------------------------------------------- HTTP handlers
email_webhook(data, fault) ==
  LET r == EmailWebhookResult(data, issues, now, fault)
  IN /\ issues' = r.issues
     /\ http' = [handler |-> "email", data |-> data, fault |-> fault,
                 pre |-> Len(issues), calls |-> r.calls, status |-> r.status]
     /\ UNCHANGED <<entry, now, ticks, inbox, schedVars>>

redmine_webhook(data, fault) ==
  LET r == RedmineWebhookResult(data, issues, fault)
  IN /\ http' = [handler |-> "redmine", data |-> data, fault |-> fault,
                 pre |-> Len(issues), calls |-> r.calls, status |-> r.status]
     /\ UNCHANGED <<entry, now, ticks, issues, inbox, schedVars>>

\* the notifications at hand: the send_email calls of the last exchange and
\* of the current scan
SentMails ==
  {http.calls[i] : i \in {j \in 1..Len(http.calls) : http.calls[j].op = "send"}}
  \cup {scanMails[i].mail : i \in 1..Len(scanMails)}

\* the addressee answers a notification: the mail relay hands /webhook/email
\* a message from them whose subject is "Re: " and the subject of the
\* notification
reply(fault) ==
  \E mail \in SentMails :
     /\ mail.to # <<>>
     /\ email_webhook(EmailData(mail.to[1], <<W("Re:")>> \o mail.subject,
                                << <<"it's broken">> >>),
                      fault)

\* ------------------------------------------------- the scheduler thread
\* run_pending runs a job whose next_run has come; the thread runs one job
\* at a time, and schedule sets the job's next_run when the job returns
\* the job as it would be if it ran in a thread of its own
check_emails_in_thread(fault) ==
  /\ now >= next_run.emails
  /\ LET r == CheckEmails(inbox, issues, now, fault)
     IN /\ issues' = r.issues
        /\ inbox' = r.inbox
        /\ mbox' = [ran |-> TRUE, calls |-> r.calls, runs |-> mbox.runs + 1,
                    fault |-> fault,
                    unread |-> {k \in 1..Len(inbox) : ~inbox[k].seen},
                    created |-> mbox.created \o r.created]
  /\ next_run' = [next_run EXCEPT !.emails = now + Window]
  /\ UNCHANGED <<entry, now, ticks, http, pc, updated_since, scanList, scanReturned,
                 scanned, scanMails, missed>>

\* mbox keeps, of the last run, its calls, its fault and the messages that
\* were unread when it started, and, of all runs, their number and the
\* messages a ticket was created from
check_emails(fault) ==
  /\ pc = "idle"
  /\ now >= next_run.emails
  /\ LET r == CheckEmails(inbox, issues, now, fault)
     IN /\ issues' = r.issues
        /\ inbox' = r.inbox
        /\ mbox' = [ran |-> TRUE, calls |-> r.calls, runs |-> mbox.runs + 1,
                    fault |-> fault,
                    unread |-> {k \in 1..Len(inbox) : ~inbox[k].seen},
                    created |-> mbox.created \o r.created]
  /\ next_run' = [next_run EXCEPT !.emails = now + Window]
  /\ UNCHANGED <<entry, now, ticks, http, pc, updated_since, scanList, scanReturned,
                 scanned, scanMails, missed>>

\* the function is left, by return or through "except": its locals are gone
ScanOver ==
  /\ pc' = "idle"
  /\ updated_since' = 0
  /\ scanList' = <<>>
  /\ scanReturned' = <<>>
  /\ scanned' = <<>>
  /\ scanMails' = <<>>
  /\ next_run' = [next_run EXCEPT !.updates = now + Window]

\* lines 215-219: the watermark is computed, the ticket list is fetched; when
\* the fetch raises, line 256 logs and the job is over
process_redmine_updates_begin(fault) ==
  /\ pc = "idle"
  /\ now >= next_run.updates
  /\ IF fault = "get"
     THEN /\ ScanOver
          /\ missed' = missed \cup Owed(issues, now - Window)
     ELSE /\ pc' = "scan"
          /\ updated_since' = now - Window
          /\ scanList' = SortedIds(issues, 1..Len(issues))
          /\ scanReturned' = SortedIds(issues, 1..Len(issues))
          /\ UNCHANGED <<scanned, scanMails, missed, next_run>>
  /\ UNCHANGED <<entry, now, ticks, issues, inbox, http, mbox>>

\* the iteration as it would be if it touched the ticket it has notified
process_redmine_updates_ticket_touching(fault) ==
  /\ pc = "scan"
  /\ scanList # <<>>
  /\ LET id == Head(scanList)
         g == get_redmine_issue(issues, id, fault)
         mails == IF g.found THEN TicketMails(id, issues[id], updated_since) ELSE <<>>
     IN /\ scanList' = Tail(scanList)
        /\ scanned' = Append(scanned,
              [id |-> id, found |-> g.found,
               n |-> IF g.found THEN Len(issues[id].journals) ELSE 0])
        /\ scanMails' = scanMails \o mails
        /\ missed' = missed \ MailEntries(mails)
        /\ issues' = IF mails = <<>> THEN issues
                     ELSE [issues EXCEPT ![id].updated_on = now]
        /\ UNCHANGED <<pc, updated_since, scanReturned, next_run>>
  /\ UNCHANGED <<entry, now, ticks, inbox, http, mbox>>

\* lines 220-255 for the next ticket of the list
process_redmine_updates_ticket(fault) ==
  /\ pc = "scan"
  /\ scanList # <<>>
  /\ LET id == Head(scanList)
         g == get_redmine_issue(issues, id, fault)
         mails == IF g.found THEN TicketMails(id, issues[id], updated_since) ELSE <<>>
     IN IF g.raised
        THEN /\ ScanOver
             /\ missed' = missed \cup Owed(issues, updated_since)
        ELSE /\ scanList' = Tail(scanList)
             /\ scanned' = Append(scanned,
                   [id |-> id, found |-> g.found,
                    n |-> IF g.found THEN Len(issues[id].journals) ELSE 0])
             /\ scanMails' = scanMails \o mails
             /\ missed' = missed \ MailEntries(mails)
             /\ UNCHANGED <<pc, updated_since, scanReturned, next_run>>
  /\ UNCHANGED <<entry, now, ticks, issues, inbox, http, mbox>>

\* the loop is over and the function returns
process_redmine_updates_end ==
  /\ pc = "scan"
  /\ scanList = <<>>
  /\ ScanOver
  /\ UNCHANGED <<entry, now, ticks, issues, inbox, http, missed, mbox>>

\* ------------------------------------------------------- specifications
\* the payloads the mailbox specification hands to /webhook/email
FewEmails ==
  {EmailData("a@x", <<W("Need help")>>, << <<"it's broken">> >>),
   EmailData("a@x", <<W("Re:"), Tag(1), W("thanks")>>, << <<"it's broken">> >>)}

\* the whole service
Next ==
  \/ \E d \in ClockSteps : Tick(d) /\ ticks' <= MaxTicks
  \/ \E id \in 1..MaxIssues, notes \in StaffNotes :
        StaffComment(id, notes) /\ Bounded(MaxIssues, MaxJournals)
  \/ \E description \in StaffDescriptions :
        StaffCreate(description) /\ Bounded(MaxIssues, MaxJournals)
  \/ \E m \in InboxMessages : MailArrives(m)
  \/ \E data \in WellFormedEmails \cup MalformedEmails, fault \in Faults :
        email_webhook(data, fault) /\ Bounded(MaxIssues, MaxJournals)
  \/ \E data \in RedminePayloads, fault \in Faults : redmine_webhook(data, fault)
  \/ \E fault \in MailFaults : check_emails(fault) /\ Bounded(MaxIssues, MaxJournals)
  \/ \E fault \in Faults : process_redmine_updates_begin(fault)
  \/ \E fault \in Faults : process_redmine_updates_ticket(fault)
  \/ process_redmine_updates_end

Spec == Init /\ [][Next]_vars

\* the request-serving context alone (the service as run.py serves it), at
\* one reading of the clock: every payload, every backend fault that the
\* handler can meet, over a tracker that starts empty
NextHttp ==
  \/ \E description \in StaffDescriptions :
        StaffCreate(description) /\ Bounded(HttpMaxIssues, HttpMaxJournals)
  \/ \E data \in WellFormedEmails, fault \in Faults :
        email_webhook(data, fault) /\ Bounded(HttpMaxIssues, HttpMaxJournals)
  \/ \E data \in MalformedEmails : email_webhook(data, "none")
  \/ \E data \in RedminePayloads, fault \in {"none", "get"} : redmine_webhook(data, fault)

SpecHttp == InitRun /\ [][NextHttp]_vars

\* the backend activity poll with the clock and the tracker's users
NextPoll ==
  \/ \E d \in ClockSteps : Tick(d) /\ ticks' <= MaxTicks
  \/ \E id \in 1..MaxIssues, notes \in StaffNotes :
        StaffComment(id, notes) /\ Bounded(MaxIssues, MaxJournals)
  \/ \E fault \in Faults : process_redmine_updates_begin(fault)
  \/ \E fault \in Faults : process_redmine_updates_ticket(fault)
  \/ process_redmine_updates_end

SpecPoll == InitConnect /\ [][NextPoll]_vars

\* the mailbox poll: the clock in polling periods, the mailbox filling up
NextMailbox ==
  \/ Tick(Window) /\ ticks' <= MailMaxTicks
  \/ \E m \in InboxMessages : MailArrives(m)
  \/ \E fault \in MailFaults : check_emails(fault) /\ Bounded(MaxIssues + 2, MaxJournals)

SpecMailbox == InitConnect /\ [][NextMailbox]_vars

\* a conversation: messages come in through /webhook/email, the tracker
\* calls /webhook/redmine, the poll runs, and the notifications are answered
ThreadBackends ==
  {<<Quoting("b@x", 2)>>}

InitThread == Start({"connect"}, ThreadBackends)

NextThread ==
  \/ Tick(Window) /\ ticks' <= ThreadMaxTicks
  \/ email_webhook(EmailData("a@x", <<W("Need help")>>, << <<"it's broken">> >>), "none")
        /\ Bounded(ThreadMaxIssues, ThreadMaxJournals)
  \/ reply("none") /\ Bounded(ThreadMaxIssues, ThreadMaxJournals)
  \/ \E id \in 1..ThreadMaxIssues :
        redmine_webhook(RedmineData({"issue"}, {"id"}, id), "none")
  \/ process_redmine_updates_begin("none")
  \/ process_redmine_updates_ticket("none")
  \/ process_redmine_updates_end

SpecThread == InitThread /\ [][NextThread]_vars

\* notifying the requester: tickets come in through /webhook/email, other
\* senders and the tracker's users comment on them, the tracker calls
\* /webhook/redmine and the poll runs
InitNotify == Start({"connect"}, {<<>>})

NotifyEmails ==
  {EmailData("a@x", <<W("Need help")>>, << <<"it's broken">> >>),
   EmailData("b@x", <<W("Re:"), Tag(1), W("thanks")>>, << <<"it's broken">> >>)}

NextNotify ==
  \/ Tick(Window) /\ ticks' <= ThreadMaxTicks
  \/ \E id \in 1..NotifyMaxIssues :
        StaffComment(id, << <<"fixed">> >>) /\ Bounded(NotifyMaxIssues, ThreadMaxJournals)
  \/ \E data \in NotifyEmails :
        email_webhook(data, "none") /\ Bounded(NotifyMaxIssues, ThreadMaxJournals)
  \/ \E id \in 1..NotifyMaxIssues :
        redmine_webhook(RedmineData({"issue"}, {"id"}, id), "none")
  \/ process_redmine_updates_begin("none")
  \/ process_redmine_updates_ticket("none")
  \/ process_redmine_updates_end

SpecNotify == InitNotify /\ [][NextNotify]_vars

\* the service as either entry point starts it: the clock in polling
\* periods, mail arriving, /webhook/email serving, and the two jobs
InitService == Start({"connect", "run"}, {<<Requested("a@x"), Requested("b@x")>>})

NextService ==
  \/ Tick(Window) /\ ticks' <= MailMaxTicks
  \/ MailArrives([from |-> "a@x", subject |-> <<W("Need help")>>,
                  body |-> << <<"it's broken">> >>, defect |-> "none", seen |-> FALSE])
  \/ email_webhook(EmailData("a@x", <<W("Need help")>>, << <<"it's broken">> >>), "none")
        /\ Bounded(MaxIssues + 1, MaxJournals)
  \/ check_emails("none") /\ Bounded(MaxIssues + 1, MaxJournals)
  \/ process_redmine_updates_begin("none")
  \/ process_redmine_updates_ticket("none")
  \/ process_redmine_updates_end

SpecService == InitService /\ [][NextService]_vars

\* ------------------------------------------------------------------ claims
\* what the claims read off the last HTTP exchange
CallsOf(op) == SelectSeq(http.calls, LAMBDA c : c.op = op)
EmailExchange == http.handler = "email"
\* the body has the three fields
ThreeFields == EmailExchange /\ http.data.json /\ DOMAIN http.data.obj = EmailKeys
ReqFrom == http.data.obj["from"][1]
ReqSubject == http.data.obj["subject"]
ReqBody == http.data.obj["body"]
TagPlaces(subject) == {i \in 1..Len(subject) : subject[i].k = "tag"}
\* the id of the leftmost tag of a tagged subject
LeftmostTag(subject) ==
  subject[CHOOSE i \in TagPlaces(subject) : \A j \in TagPlaces(subject) : i <= j].n
HasTag(subject, id) == \E i \in 1..Len(subject) : subject[i] = [k |-> "tag", n |-> id, s |-> ""]
AddrTokens(a) == IF a = "" THEN <<>> ELSE <<a>>

NamesSenderBeforeBody(text, a, body) ==
  /\ Len(text) > Len(body)
  /\ SubSeq(text, Len(text) - Len(body) + 1, Len(text)) = body
  /\ \E i \in 1..(Len(text) - Len(body)) : \E j \in 1..Len(text[i]) : text[i][j] = a

\* C2: an inbound message whose subject carries [Redmine #N], ticket N
\* existing: exactly one addComment(N, text), the text naming the sender's
\* address before the raw body; no createTicket; no e-mail
C2_TaggedCommentsOnly ==
  (ThreeFields /\ TagPlaces(ReqSubject) # {} /\ LeftmostTag(ReqSubject) <= http.pre) =>
     /\ Len(CallsOf("addComment")) = 1
     /\ CallsOf("addComment")[1].id = LeftmostTag(ReqSubject)
     /\ ReqFrom # "" => NamesSenderBeforeBody(CallsOf("addComment")[1].text, ReqFrom, ReqBody)
     /\ CallsOf("createTicket") = <<>>
     /\ CallsOf("send") = <<>>
     /\ Len(http.calls) = 1

C2_Witness ==
  /\ ThreeFields /\ TagPlaces(ReqSubject) # {} /\ LeftmostTag(ReqSubject) <= http.pre
  /\ ReqFrom = "b@x"
  /\ CallsOf("addComment")[1].ok
  /\ Len(issues[LeftmostTag(ReqSubject)].journals) = 1

\* C3: an inbound message whose subject carries [Redmine #N], ticket N not
\* existing, is treated as untagged: a ticket is created from it
C3_UnknownTagCreatesTicket ==
  (ThreeFields /\ TagPlaces(ReqSubject) # {} /\ LeftmostTag(ReqSubject) > http.pre
     /\ http.fault = "none") =>
     \E i \in 1..Len(http.calls) : http.calls[i].op = "createTicket"

\* C4: the mailbox poll does to the one unread message of the mailbox what
\* the mail-relay webhook does to the same message on the same backend: the
\* same collaborator calls, the same backend afterwards
C4_PollLikeWebhook ==
  [][(next_run'.emails # next_run.emails /\ Len(inbox) = 1 /\ ~inbox[1].seen
      /\ inbox[1].defect = "none" /\ mbox'.fault = "none") =>
       LET r == EmailWebhookResult(
                  EmailData(inbox[1].from, inbox[1].subject, inbox[1].body),
                  issues, now, "none")
       IN mbox'.calls = r.calls /\ issues' = r.issues]_vars

\* C5: no scan calls send_email for a journal entry created at or before its
\* watermark
C5_NoEmitAtOrBeforeWatermark ==
  \A i \in 1..Len(scanMails) :
     issues[scanMails[i].id].journals[scanMails[i].idx].created_on > updated_since

\* a description has a line starting with "De:", and the first such line has
\* something besides the prefix and blanks
Resolvable(description) ==
  \E i \in 1..Len(description) :
     /\ description[i] # <<>> /\ description[i][1] = "De:"
     /\ \A h \in 1..(i - 1) : description[h] = <<>> \/ description[h][1] # "De:"
     /\ \E j \in 1..Len(description[i]) : description[i][j] \notin {"De:", " "}

\* the entries the finished scan owes one notification each
Qualifying ==
  {e \in {<<scanned[i].id, k>> : i \in 1..Len(scanned), k \in 1..MaxJournals + 1} :
     /\ \E i \in 1..Len(scanned) :
           scanned[i].id = e[1] /\ scanned[i].found /\ e[2] <= scanned[i].n
     /\ Resolvable(issues[e[1]].description)
     /\ issues[e[1]].journals[e[2]].notes # << <<>> >>
     /\ issues[e[1]].journals[e[2]].created_on > updated_since}

ScanFinished == pc = "scan" /\ scanList = <<>>

\* C6: a finished scan has emitted exactly one notification per qualifying
\* entry (ticket with requester, non-empty notes, created strictly after the
\* watermark) and none else
C6_ExactlyTheQualifying ==
  ScanFinished =>
     /\ {<<scanMails[i].id, scanMails[i].idx>> : i \in 1..Len(scanMails)} = Qualifying
     /\ Len(scanMails) = Cardinality(Qualifying)

\* C7: when a scan that follows a failed one has finished, having fetched
\* every ticket, every entry that fell in the failed scan's window has been
\* notified
C7_FailedWindowRecovered ==
  (ScanFinished /\ \A i \in 1..Len(scanned) : scanned[i].found) => missed = {}

C9_MalformedEmailRejected ==
  (EmailExchange /\ (~http.data.json \/ DOMAIN http.data.obj # EmailKeys)) =>
     http.status = 400 /\ http.calls = <<>>

C9_Witness ==
  EmailExchange /\ http.data.json /\ DOMAIN http.data.obj = {"from", "subject"}
  /\ http.status = 400

\* C10: a body of /webhook/redmine that is not { "issue": { "id": <int> } }:
\* HTTP 400, no e-mail
C10_MalformedRedmineRejected ==
  (/\ http.handler = "redmine"
   /\ ~(http.data.json /\ "issue" \in http.data.keys /\ "id" \in http.data.issue_keys)) =>
     http.status = 400 /\ CallsOf("send") = <<>>

\* the mutation the last /webhook/email exchange chose was carried out
MutationPerformed ==
  \/ \E i \in 1..Len(http.calls) : http.calls[i].op = "createTicket" /\ http.calls[i].issue # 0
  \/ \E i \in 1..Len(http.calls) : http.calls[i].op = "addComment" /\ http.calls[i].ok

\* the tag of the message names a ticket the backend does not hold
TagNotFound == TagPlaces(ReqSubject) # {} /\ LeftmostTag(ReqSubject) > http.pre

\* C13: a well-formed message whose mutation fails inside the backend call
\* (the not-found case apart) is answered 500, and 200 is answered only when
\* the mutation was carried out
C13_FailedMutationAnswered500 ==
  (ThreeFields /\ ~TagNotFound) =>
     /\ ~MutationPerformed => http.status = 500
     /\ http.status = 200 => MutationPerformed

\* the messages the runs of check_emails created a ticket from
TicketedMessages == {mbox.created[i] : i \in 1..Len(mbox.created)}
\* the messages that were unread when the last run started
PolledMessages == mbox.unread
Readable(k) == inbox[k].defect = "none"

C17_LocalFailureIsolated ==
  (/\ mbox.ran /\ mbox.fault = "none"
   /\ Cardinality(PolledMessages) >= 2
   /\ \E k \in PolledMessages : ~Readable(k)) =>
     \A k \in PolledMessages : Readable(k) => inbox[k].seen

\* C20: a run in which the creations failed has flagged no message seen and
\* sent no confirmation; a run in which the backend accepted creations has
\* made a ticket of every message that was unread when it started
C20_FailedCreationRetried ==
  /\ (mbox.ran /\ mbox.fault = "write") =>
        /\ \A k \in PolledMessages : ~inbox[k].seen
        /\ \A i \in 1..Len(mbox.calls) : mbox.calls[i].op # "send"
  /\ (/\ mbox.ran /\ mbox.fault = "none"
      /\ \A k \in PolledMessages : Readable(k)) =>
        PolledMessages \subseteq TicketedMessages

\* what a scan with watermark `since` emits over the backend as it stands: one
\* (ticket, entry) per entry with notes, not older than `since`, of a ticket
\* whose description names a requester
Emitted(since) ==
  {e \in {<<i, k>> : i \in 1..Len(issues), k \in 1..MaxJournals + 1} :
     /\ e[2] <= Len(issues[e[1]].journals)
     /\ Resolvable(issues[e[1]].description)
     /\ issues[e[1]].journals[e[2]].notes # << <<>> >>
     /\ issues[e[1]].journals[e[2]].created_on >= since}

\* the finished scan fetched every ticket of the backend, and each as it
\* stands now
ScanSawBackend ==
  /\ ScanFinished
  /\ Len(scanned) = Len(issues)
  /\ \A i \in 1..Len(scanned) :
        scanned[i].found /\ scanned[i].n = Len(issues[scanned[i].id].journals)

\* C19: no step of a scan changes the backend, and what a finished scan has
\* emitted is determined by its watermark and the backend it saw: two scans
\* with the same watermark over the same backend emit the same set
C19_ScanHasNoHiddenMutation ==
  [][/\ (pc' # pc \/ scanned' # scanned \/ next_run' # next_run) => issues' = issues
     /\ ScanSawBackend' =>
          /\ {<<scanMails'[i].id, scanMails'[i].idx>> : i \in 1..Len(scanMails')}
               = Emitted(updated_since)'
          /\ Len(scanMails') = Cardinality(Emitted(updated_since)')]_vars

\* a scan after an earlier run, finished, with something emitted
C19_Witness ==
  /\ ScanSawBackend
  /\ next_run.updates > Window
  /\ scanMails # <<>>

\* the notifications at hand, each with the ticket it is about: the
\* confirmation of the last /webhook/email exchange, the messages of the last
\* /webhook/redmine exchange, of the current scan and of the last mailbox run
NotifiedAbout ==
  (IF /\ http.handler = "email" /\ Len(http.calls) = 2
      /\ http.calls[1].op = "createTicket" /\ http.calls[2].op = "send"
   THEN {[t |-> http.calls[1].issue, subject |-> http.calls[2].subject,
          to |-> http.calls[2].to]}
   ELSE {})
  \cup (IF http.handler = "redmine"
        THEN {[t |-> http.calls[1].id, subject |-> http.calls[j].subject,
               to |-> http.calls[j].to] : j \in 2..Len(http.calls)}
        ELSE {})
  \cup {[t |-> scanMails[i].id, subject |-> scanMails[i].mail.subject,
         to |-> scanMails[i].mail.to] : i \in 1..Len(scanMails)}
  \cup {[t |-> mbox.calls[i - 1].issue, subject |-> mbox.calls[i].subject,
         to |-> mbox.calls[i].to] :
          i \in {j \in 2..Len(mbox.calls) : mbox.calls[j].op = "send"}}

ReplyTo(subject) == <<[k |-> "w", n |-> 0, s |-> "Re:"]>> \o subject

\* C11: the subject of every notification about ticket t carries the tag of
\* t before any other tag, also behind a reply prefix; and /webhook/email,
\* handed a reply to it, makes one addComment call on t and no createTicket
C11_NotificationsRoundTrip ==
  [][/\ \A n \in NotifiedAbout' :
          /\ TagPlaces(n.subject) # {}
          /\ LeftmostTag(n.subject) = n.t
          /\ LeftmostTag(ReplyTo(n.subject)) = n.t
     /\ \A n \in NotifiedAbout :
          (/\ http' # http /\ http'.handler = "email"
           /\ http'.data.json /\ DOMAIN http'.data.obj = EmailKeys
           /\ http'.data.obj["subject"] = ReplyTo(n.subject)) =>
             /\ Len(http'.calls) = 1
             /\ http'.calls[1].op = "addComment"
             /\ http'.calls[1].id = n.t]_vars

\* the answer to an update notification about ticket 1, whose own subject
\* quotes the tag of ticket 2, has become a comment on ticket 1
C11_Witness ==
  /\ ThreeFields
  /\ Len(ReqSubject) >= 4
  /\ ReqSubject[1].s = "Re:" /\ ReqSubject[2] = [k |-> "tag", n |-> 1, s |-> ""]
  /\ HasTag(ReqSubject, 2)
  /\ Len(http.calls) = 1 /\ http.calls[1].op = "addComment"
  /\ http.calls[1].id = 1 /\ http.calls[1].ok

\* the first line of the description is exactly "De: a"
FirstLineNames(description, a) ==
  description # <<>> /\ description[1] = <<"De:", " ", a>>

\* the messages sent about a ticket by /webhook/redmine and by the poll
UpdatesAbout ==
  (IF http.handler = "redmine"
   THEN {[t |-> http.calls[1].id, to |-> http.calls[j].to] : j \in 2..Len(http.calls)}
   ELSE {})
  \cup {[t |-> scanMails[i].id, to |-> scanMails[i].mail.to] : i \in 1..Len(scanMails)}

\* C16: a ticket /webhook/email creates from a message of sender a gets a
\* description whose first line is exactly "De: a"; no later step changes a
\* description; and every message /webhook/redmine or the poll sends about a
\* ticket whose first line is "De: a" is addressed to a alone
C16_RequesterSurvives ==
  [][/\ (/\ http' # http /\ http'.handler = "email" /\ http'.calls # <<>>
         /\ http'.calls[1].op = "createTicket" /\ http'.calls[1].issue # 0) =>
          /\ Len(issues') = Len(issues) + 1
          /\ http'.calls[1].issue = Len(issues')
          /\ FirstLineNames(issues'[Len(issues')].description,
                            http'.data.obj["from"][1])
     /\ \A i \in 1..Len(issues) : issues'[i].description = issues[i].description
     /\ \A n \in UpdatesAbout' : \A a \in {"a@x", "b@x"} :
          FirstLineNames(issues'[n.t].description, a) => n.to = <<a>>]_vars

\* ticket 1, created by /webhook/email from a message of a@x and commented
\* through /webhook/email by b@x, has been notified by the poll to a@x
C16_Witness ==
  /\ Len(issues) >= 1
  /\ FirstLineNames(issues[1].description, "a@x")
  /\ \E k \in 1..Len(issues[1].journals) :
        /\ \E i \in 1..Len(issues[1].journals[k].notes) :
              \E j \in 1..Len(issues[1].journals[k].notes[i]) :
                 issues[1].journals[k].notes[i][j] = "b@x"
        /\ \E m \in 1..Len(scanMails) :
              /\ scanMails[m].id = 1 /\ scanMails[m].idx = k
              /\ scanMails[m].mail.to = <<"a@x">>

C14_TimerContextStarted ==
  (now >= next_run.emails \/ now >= next_run.updates) => pc \in {"idle", "scan"}

\* C15: the mailbox poll runs only while no scan is in flight and is over
\* when its step is; a scan starts only while none is in flight; and a job's
\* next run is set only when the job is over
C15_PollsNeverOverlap ==
  [][/\ mbox'.runs # mbox.runs => pc = "idle" /\ pc' = "idle"
     /\ (pc' = "scan" /\ scanned' = <<>> /\ scanReturned' # scanReturned) => pc = "idle"
     /\ next_run' # next_run => pc' = "idle"]_vars

\* a scan in flight, part done, and a ticket that /webhook/email created
\* after the scan had fetched its list
C15_Witness ==
  /\ pc = "scan" /\ scanned # <<>> /\ scanList # <<>>
  /\ Len(issues) > Len(scanReturned)
  /\ http.handler = "email" /\ http.calls # <<>>
  /\ http.calls[1].op = "createTicket" /\ http.calls[1].issue = Len(issues)

====
